---- MODULE Spec2Model ----
(***************************************************************************)
(* Knock-knock joke server (Assignment 1/server.cpp).                      *)
(*                                                                         *)
(* One acceptor thread (main) and one worker thread per accepted           *)
(* connection (handle_client).  A worker step is the code a worker runs    *)
(* between two blocking recv_line calls: it reads one client line, decides *)
(* on it, and sends the lines the code sends up to the next read.  Every   *)
(* send_line / recv_line call may fail (peer gone).                        *)
(*                                                                         *)
(* Strings are sequences of one-character strings, so that trim, lower and *)
(* iequals are computed as the code computes them.  Joke indices are       *)
(* 1-based here (0-based in the code); 0 stands for "no joke selected".    *)
(***************************************************************************)
EXTENDS Integers, Sequences, FiniteSets, TLC

\* ------------------------------------------------------------------ bounds
\* size of the largest catalog loaded at startup
MaxJokes == 2

\* length of the longest of the short byte streams a client sends
MaxShort == 3

\* the worker slots: at most this many sessions are live at once, a slot is
\* reused by a later connection once its worker has returned
Sessions == {"A", "B"}

\* ------------------------------------------------------------ characters
WS == {" ", "\t", "\r", "\n"}

Upper2Lower ==
  [c \in {"A","B","C","D","E","F","G","H","I","J","K","L","M",
          "N","O","P","Q","R","S","T","U","V","W","X","Y","Z"} |->
     CASE c = "A" -> "a" [] c = "B" -> "b" [] c = "C" -> "c" [] c = "D" -> "d"
       [] c = "E" -> "e" [] c = "F" -> "f" [] c = "G" -> "g" [] c = "H" -> "h"
       [] c = "I" -> "i" [] c = "J" -> "j" [] c = "K" -> "k" [] c = "L" -> "l"
       [] c = "M" -> "m" [] c = "N" -> "n" [] c = "O" -> "o" [] c = "P" -> "p"
       [] c = "Q" -> "q" [] c = "R" -> "r" [] c = "S" -> "s" [] c = "T" -> "t"
       [] c = "U" -> "u" [] c = "V" -> "v" [] c = "W" -> "w" [] c = "X" -> "x"
       [] c = "Y" -> "y" [] c = "Z" -> "z"]

tolower(c) == IF c \in DOMAIN Upper2Lower THEN Upper2Lower[c] ELSE c

\* s.find_first_not_of(" \t\r\n") from position k; 0 stands for npos
RECURSIVE find_first_not_of(_, _)
find_first_not_of(s, k) ==
  IF k > Len(s) THEN 0
  ELSE IF s[k] \notin WS THEN k ELSE find_first_not_of(s, k + 1)

\* s.find_last_not_of(" \t\r\n") down from position k
RECURSIVE find_last_not_of(_, _)
find_last_not_of(s, k) ==
  IF k < 1 THEN 0
  ELSE IF s[k] \notin WS THEN k ELSE find_last_not_of(s, k - 1)

\* s.substr(i, j - i + 1), i and j the first and the last non-blank
trim(s) ==
  LET i == find_first_not_of(s, 1)
  IN IF i = 0 THEN <<>>
     ELSE SubSeq(s, i, find_last_not_of(s, Len(s)))

lower(s) == [k \in 1..Len(s) |-> tolower(s[k])]

\* iequals without trim
iequalsUntrimmed(a, b) == lower(a) = lower(b)

iequals(a, b) == lower(trim(a)) = lower(trim(b))

\* ------------------------------------------------------------- the texts
sWhosThere == <<"W","h","o","'","s"," ","t","h","e","r","e","?">>
sWho       == <<" ","w","h","o","?">>
sY         == <<"Y">>
sYes       == <<"y","e","s">>
sN         == <<"N">>
sNo        == <<"n","o">>

\* the rows the data source may hold, in table order
Pool ==
  << [setup |-> <<"B","o","o">>,
      punchline |-> <<"D","o","n","'","t"," ","c","r","y">>],
     [setup |-> <<"I","c","e"," ","c","r","e","a","m">>,
      punchline |-> <<"S","o"," ","l","o","u","d">>],
     [setup |-> <<"T","a","n","k">>,
      punchline |-> <<"W","e","l","c","o","m","e">>],
     [setup |-> <<"C","o","w">>,
      punchline |-> <<"M","o","o">>] >>

VARIABLES
  jokes,           \* global vector<Joke>
  mainPc,          \* where main is
  server_running,  \* atomic<bool>
  active_clients,  \* atomic<int>
  timer_running,   \* main's idle-timer flag
  idle,            \* whole seconds since zero_since, capped at GRACE; read only
                   \* while timer_running, kept 0 otherwise
  listening,       \* listen_fd is open and not shut down
  pending,         \* the session allocated by main, not yet handed to a thread
  pc,              \* per worker: where handle_client / play_joke is
  told,            \* per session: told_jokes
  idx,             \* per session: idx of the running play_joke frame
  fdOpen,          \* per session: session->fd not yet closed
  ioFailed,        \* per session: a recv_line/send_line of it reported failure
  ev,              \* the latest step: whose it was, what it read and sent
  rx,              \* recv_line byte by byte: the bytes on the wire, the local
                   \* `line`, where the call is; idle wherever recv_line is
                   \* taken as one step that returns a whole line
  hist             \* per session, what has happened in it so far: selections,
                   \* nested play_joke calls, wrong setup replies, punchlines
                   \* sent, the line read before; kept only when hist.on

vars == <<jokes, mainPc, server_running, active_clients, timer_running, idle,
          listening, pending, pc, told, idx, fdOpen, ioFailed, ev, rx, hist>>

mainVars == <<jokes, mainPc, server_running, active_clients, timer_running,
              idle, listening, pending>>

sessionVars == <<pc, told, idx, fdOpen, ioFailed>>

\* ------------------------------------------------------- lines and replies
\* a line the server sends: what it is, and the text it carries
Line(tag, arg) == [tag |-> tag, arg |-> arg]

LKnock         == Line("knock", <<>>)          \* "Knock knock! <input>"
LSetup(jk)     == Line("setup", jk.setup)      \* jk.setup + " <input>"
LPunch(jk)     == Line("punchline", jk.punchline)
LCorrect(text) == Line("correction", text)     \* "You are supposed to say, ..."
LAnother       == Line("another", <<>>)        \* "Would you like ... (Y/N) <input>"
LRemind        == Line("reminder", <<>>)       \* "Please reply with Y or N."
LNoMore        == Line("nomore", <<>>)         \* "I have no more jokes to tell."

\* the lines that carry the "<input>" marker
HasInput(l) == l.tag \in {"knock", "setup", "another"}

expect1 == sWhosThere
expect2(jk) == jk.setup \o sWho

\* the tester's setup_word: the setup up to its first blank
FirstWord(w) ==
  LET sp == {k \in 1..Len(w) : w[k] = " "}
  IN  IF sp = {} THEN w
      ELSE SubSeq(w, 1, (CHOOSE k \in sp : \A j \in sp : k <= j) - 1)

\* client lines recv_line may return: the exact texts of the protocol, from
\* clients that know the first joke only
CoreReplies ==
  { sWhosThere, sY, sN, expect2(Pool[1]) }

\* and with them the right reply to every joke, the tester's reply to it,
\* lines in other case, with blanks around, misspelt, empty
Replies ==
  CoreReplies \cup { expect2(Pool[j]) : j \in 1..MaxJokes } \cup
  { FirstWord(Pool[j].setup) \o sWho : j \in 1..MaxJokes } \cup
  { <<" ","w","h","o","'","S"," ","T","H","E","R","E","?","\t">>,
    <<"W","h","o"," ","t","h","e","r","e","?">>,
    <<"b","O","O"," ","W","H","O","?"," ">>,
    <<"B","o","o"," ","w","h","o","o","?">>,
    <<" ","y","E","s">>, <<"N","o"," ">>, <<"m","a","y","b","e">>, <<>> }

\* ------------------------------------------------------------ play_joke
\* Avail without the told_jokes.count(i) test
AvailIgnoresTold(t) == 1..Len(jokes)

\* indices not yet told to this client
Avail(t) == {i \in 1..Len(jokes) : i \notin t}

MatchKnock(r) == iequals(r, expect1)
\* MatchSetup against the first word of the setup
MatchSetupFirstWord(r, jk) == iequals(r, FirstWord(jk.setup) \o sWho)

MatchSetup(r, jk) == iequals(r, expect2(jk))
IsNo(r) == iequals(r, sN) \/ iequals(r, sNo)
\* IsYes comparing with == instead of iequals
IsYesExact(r) == r = sY \/ r = sYes

IsYes(r) == iequals(r, sY) \/ iequals(r, sYes)

\* where a step of a worker leaves the session: the next position, the told
\* set, the frame's idx, the lines sent in order, whether an I/O call
\* failed, and the index the step selected (0: it selected none)
Outcome(p, t, i, out, failed, picked) ==
  [pc |-> p, told |-> t, idx |-> i, sent |-> out, failed |-> failed,
   picked |-> picked]

\* PlayJoke giving up while one joke is still untold (avail.size() <= 1)
PlayJokeGivesUpEarly(t, i0, pre) ==
  IF Cardinality(Avail(t)) <= 1
  THEN { Outcome("close", t, i0, Append(pre, LNoMore), FALSE, 0),
         Outcome("close", t, i0, pre, TRUE, 0) }
  ELSE UNION { { Outcome("recvKnock", t \cup {i}, i, Append(pre, LKnock), FALSE, i),
                 Outcome("close", t \cup {i}, i, pre, TRUE, i) } : i \in Avail(t) }

\* PlayJoke inserting idx into told_jokes only once the prompt is sent
PlayJokeInsertsAfterPrompt(t, i0, pre) ==
  IF Avail(t) = {}
  THEN { Outcome("close", t, i0, Append(pre, LNoMore), FALSE, 0),
         Outcome("close", t, i0, pre, TRUE, 0) }
  ELSE UNION { { Outcome("recvKnock", t \cup {i}, i, Append(pre, LKnock), FALSE, i),
                 Outcome("close", t, i, pre, TRUE, i) } : i \in Avail(t) }

\* play_joke entered with told set t after the step already sent `pre`;
\* i0 is the idx of the calling frame (0 when called from handle_client).
\* Runs up to the first recv_line.
PlayJoke(t, i0, pre) ==
  IF Avail(t) = {}
  THEN \* the result of this send_line is not looked at
       { Outcome("close", t, i0, Append(pre, LNoMore), FALSE, 0),
         Outcome("close", t, i0, pre, TRUE, 0) }
  ELSE UNION { { Outcome("recvKnock", t \cup {i}, i, Append(pre, LKnock), FALSE, i),
                 Outcome("close", t \cup {i}, i, pre, TRUE, i) } : i \in Avail(t) }

\* the wrong-setup branch going back to the knock prompt of the joke in play,
\* without a call of play_joke
RestartSameJoke(t, i) ==
  { Outcome("close", t, i, <<>>, TRUE, 0),
    Outcome("close", t, i, << LCorrect(expect2(jokes[i])) >>, TRUE, 0),
    Outcome("recvKnock", t, i, << LCorrect(expect2(jokes[i])), LKnock >>, FALSE, 0) }

\* the wrong-setup branch: correction, then play_joke again
RestartAfterWrongSetup(t, i) ==
  { Outcome("close", t, i, <<>>, TRUE, 0) }
    \cup PlayJoke(t, i, << LCorrect(expect2(jokes[i])) >>)

\* RepromptKnock without the second send_line: the prompt is not sent again
RepromptKnockNoPrompt(t, i) ==
  { Outcome("close", t, i, <<>>, TRUE, 0),
    Outcome("recvKnock", t, i, << LCorrect(expect1) >>, FALSE, 0) }

\* the wrong-knock branch: correction, fresh prompt, read again
RepromptKnock(t, i) ==
  { Outcome("close", t, i, <<>>, TRUE, 0),
    Outcome("close", t, i, << LCorrect(expect1) >>, TRUE, 0),
    Outcome("recvKnock", t, i, << LCorrect(expect1), LKnock >>, FALSE, 0) }

\* SendSetup going on to the read although send_line returned false
SendSetupIgnoresFailure(t, i) ==
  { Outcome("recvSetup", t, i, <<>>, TRUE, 0),
    Outcome("recvSetup", t, i, << LSetup(jokes[i]) >>, FALSE, 0) }

\* step 2 entered: the setup prompt
SendSetup(t, i) ==
  { Outcome("close", t, i, <<>>, TRUE, 0),
    Outcome("recvSetup", t, i, << LSetup(jokes[i]) >>, FALSE, 0) }

\* step 3, and back in handle_client the first continuation prompt
Deliver(t, i) ==
  { Outcome("close", t, i, <<>>, TRUE, 0),
    Outcome("close", t, i, << LPunch(jokes[i]) >>, TRUE, 0),
    Outcome("recvYN", t, i, << LPunch(jokes[i]), LAnother >>, FALSE, 0) }

\* RepromptAnother that reads again after the reminder alone
RepromptAnotherNoPrompt(t, i) ==
  { Outcome("close", t, i, <<>>, TRUE, 0),
    Outcome("recvYN", t, i, << LRemind >>, FALSE, 0) }

\* neither Y nor N: reminder, then the prompt again
RepromptAnother(t, i) ==
  { Outcome("close", t, i, <<>>, TRUE, 0),
    Outcome("close", t, i, << LRemind >>, TRUE, 0),
    Outcome("recvYN", t, i, << LRemind, LAnother >>, FALSE, 0) }

AfterKnockReply(t, i, r) ==
  IF MatchKnock(r) THEN SendSetup(t, i) ELSE RepromptKnock(t, i)

\* AfterSetupReply that delivers the punchline whatever the reply was
DeliverOnAnyReply(t, i, r) == Deliver(t, i)

AfterSetupReply(t, i, r) ==
  IF MatchSetup(r, jokes[i]) THEN Deliver(t, i) ELSE RestartAfterWrongSetup(t, i)

\* AfterAnotherReply taking every reply that is not a no for a yes
AnotherDefaultsToYes(t, i, r) ==
  IF IsNo(r) THEN { Outcome("close", t, i, <<>>, FALSE, 0) }
  ELSE PlayJoke(t, 0, <<>>)

AfterAnotherReply(t, i, r) ==
  IF IsNo(r) THEN { Outcome("close", t, i, <<>>, FALSE, 0) }
  ELSE IF IsYes(r) THEN PlayJoke(t, 0, <<>>)
  ELSE RepromptAnother(t, i)

\* what ::recv can return instead of a byte, and ::send instead of a count
RecvReturns ==
  { [n |-> 0, errno |-> "none"], [n |-> -1, errno |-> "EINTR"],
    [n |-> -1, errno |-> "ECONNRESET"] }
SendReturns ==
  { [n |-> -1, errno |-> "EINTR"], [n |-> -1, errno |-> "EPIPE"] }

\* recv_line: if (n <= 0) return false
recv_line_gives_up(res) == res.n <= 0

\* send_line: EINTR continues the loop, any other n <= 0 returns false
send_line_gives_up(res) ==
  IF res.n < 0 THEN res.errno # "EINTR" ELSE res.n = 0

\* what a step read: at which prompt, and the line (recv_line true) or the
\* errno of the ::recv that made recv_line return false
Read(at, r) == [at |-> at, eof |-> FALSE, reply |-> r, errno |-> "none"]
ReadEOF(at, e) == [at |-> at, eof |-> TRUE, reply |-> <<>>, errno |-> e]
NoRead      == [at |-> "none", eof |-> FALSE, reply |-> <<>>, errno |-> "none"]

NoSession == "none"

\* the errno of the call that failed the step, if one did
Errnos(rd, o) ==
  IF rd.eof THEN {rd.errno}
  ELSE IF o.failed
       THEN {res.errno : res \in {x \in SendReturns : send_line_gives_up(x)}}
       ELSE {"none"}

\* the record of a step of session s that read rd and ended as o
Event(s, rd, o, e) ==
  [s |-> s, at |-> rd.at, eof |-> rd.eof, reply |-> rd.reply,
   sent |-> o.sent, failed |-> o.failed, picked |-> o.picked, errno |-> e]

Quiet(s) == Event(s, NoRead, Outcome("", {}, 0, <<>>, FALSE, 0), "none")

\* ---------------------------------------------------------------- history
\* nothing has happened yet in the session
NoHistory ==
  [picks |-> 0, lastPick |-> 0, depth |-> 0, wrong |-> 0, abandoned |-> {},
   punched |-> <<>>, last |-> <<>>, lastAt |-> "none"]

HistOff == [on |-> FALSE, of |-> [s \in Sessions |-> NoHistory]]
HistOn == [on |-> TRUE, of |-> [s \in Sessions |-> NoHistory]]

\* the history of session s after the step that read rd and ended as o:
\*   picks     how many times play_joke has selected a joke
\*   lastPick  the index it selected last
\*   depth     how many recursive play_joke calls are nested in the call made
\*             by handle_client (the frames on the stack are depth + 1)
\*   wrong     how many replies to a setup prompt did not match
\*   abandoned the jokes whose setup prompt got such a reply
\*   punched   the punchlines sent, in order
\*   last, lastAt   the line this step read, and at which prompt
Recorded(s, o, rd) ==
  IF ~hist.on THEN hist
  ELSE
    LET h == hist.of[s]
        wrongSetup == rd.at = "recvSetup" /\ ~rd.eof
                        /\ ~MatchSetup(rd.reply, jokes[idx[s]])
        recursed == wrongSetup /\ o.sent # <<>>
        called == rd.at = "none" \/ (rd.at = "recvYN" /\ ~rd.eof /\ IsYes(rd.reply))
        sentPunch == {k \in 1..Len(o.sent) : o.sent[k].tag = "punchline"}
    IN [hist EXCEPT !.of[s] =
         [picks |-> IF o.picked # 0 THEN h.picks + 1 ELSE h.picks,
          lastPick |-> IF o.picked # 0 THEN o.picked ELSE h.lastPick,
          depth |-> IF recursed THEN h.depth + 1
                    ELSE IF called \/ o.pc = "recvYN" THEN 0 ELSE h.depth,
          wrong |-> IF wrongSetup THEN h.wrong + 1 ELSE h.wrong,
          abandoned |-> IF wrongSetup THEN h.abandoned \cup {h.lastPick}
                        ELSE h.abandoned,
          punched |-> IF sentPunch = {} THEN h.punched
                      ELSE Append(h.punched,
                                  o.sent[CHOOSE k \in sentPunch : TRUE].arg),
          last |-> rd.reply,
          lastAt |-> rd.at]]

\* Become with one told_jokes set for all sessions (a static member)
BecomeSharedTold(s, o, rd) ==
  /\ pc' = [pc EXCEPT ![s] = o.pc]
  /\ told' = [x \in Sessions |-> IF pc[x] = "free" /\ x # s THEN told[x] ELSE o.told]
  /\ idx' = [idx EXCEPT ![s] = o.idx]
  /\ ioFailed' = [ioFailed EXCEPT ![s] = o.failed]
  /\ \E e \in Errnos(rd, o) : ev' = Event(s, rd, o, e)
  /\ hist' = Recorded(s, o, rd)
  /\ UNCHANGED <<fdOpen, mainVars, rx>>

\* --------------------------------------------------------------- recv_line
\* A byte string as runs: <<[c |-> "a", n |-> 3], [c |-> "\n", n |-> 1]>> is
\* "aaa\n".  No run is empty and no two neighbours have the same character.
Run(c, n) == [c |-> c, n |-> n]

\* line.push_back(ch)
push_back(l, ch) ==
  IF l # <<>> /\ l[Len(l)].c = ch
  THEN [l EXCEPT ![Len(l)].n = @ + 1]
  ELSE Append(l, Run(ch, 1))

\* the wire after ::recv has taken its first byte
AfterByte(w) == IF w[1].n > 1 THEN [w EXCEPT ![1].n = @ - 1] ELSE Tail(w)

\* line.size()
RECURSIVE size(_)
size(l) == IF l = <<>> THEN 0 ELSE l[1].n + size(Tail(l))

\* if (line.size() > 4096) break
LINE_CAP == 4096

\* recv_line is not running
RxIdle == [at |-> "idle", wire |-> <<>>, line |-> <<>>, start |-> <<>>]

\* the caller calls recv_line: line.clear(), into the loop
RecvLineCall ==
  /\ rx.at \in {"called", "true"}
  /\ rx' = [rx EXCEPT !.at = "loop", !.line = <<>>, !.start = rx.wire]
  /\ UNCHANGED <<mainVars, sessionVars, ev, hist>>

\* RecvByte that keeps the \r
RecvByteKeepsCR ==
  /\ rx.at = "loop"
  /\ rx.wire # <<>>
  /\ LET ch == rx.wire[1].c
         w == AfterByte(rx.wire)
     IN  IF ch = "\n"
         THEN rx' = [rx EXCEPT !.wire = w, !.at = "true"]
         ELSE LET l == push_back(rx.line, ch)
              IN  rx' = [rx EXCEPT !.wire = w, !.line = l,
                                   !.at = IF size(l) > LINE_CAP THEN "true"
                                          ELSE "loop"]
  /\ UNCHANGED <<mainVars, sessionVars, ev, hist>>

\* one turn of the loop in which ::recv returns a byte
RecvByte ==
  /\ rx.at = "loop"
  /\ rx.wire # <<>>
  /\ LET ch == rx.wire[1].c
         w == AfterByte(rx.wire)
     IN  IF ch = "\r"
         THEN rx' = [rx EXCEPT !.wire = w]
         ELSE IF ch = "\n"
         THEN rx' = [rx EXCEPT !.wire = w, !.at = "true"]
         ELSE LET l == push_back(rx.line, ch)
              IN  rx' = [rx EXCEPT !.wire = w, !.line = l,
                                   !.at = IF size(l) > LINE_CAP THEN "true"
                                          ELSE "loop"]
  /\ UNCHANGED <<mainVars, sessionVars, ev, hist>>

\* ::recv returns 0 (the peer has closed, nothing left to read) or -1:
\* recv_line returns false
RecvNothing ==
  /\ rx.at = "loop"
  /\ \E res \in RecvReturns :
       /\ recv_line_gives_up(res)
       /\ res.n = 0 => rx.wire = <<>>
  /\ rx' = [rx EXCEPT !.at = "false"]
  /\ UNCHANGED <<mainVars, sessionVars, ev, hist>>

\* ---------------------------------------------------------------- workers
Become(s, o, rd) ==
  /\ pc' = [pc EXCEPT ![s] = o.pc]
  /\ told' = [told EXCEPT ![s] = o.told]
  /\ idx' = [idx EXCEPT ![s] = o.idx]
  /\ ioFailed' = [ioFailed EXCEPT ![s] = o.failed]
  /\ \E e \in Errnos(rd, o) : ev' = Event(s, rd, o, e)
  /\ hist' = Recorded(s, o, rd)
  /\ UNCHANGED <<fdOpen, mainVars, rx>>

\* handle_client up to the first read
WorkerStart(s) ==
  /\ pc[s] = "start"
  /\ \E o \in PlayJoke(told[s], 0, <<>>) : Become(s, o, NoRead)

\* recv_line returned false
RecvFails(s) ==
  /\ pc[s] \in {"recvKnock", "recvSetup", "recvYN"}
  /\ \E res \in RecvReturns :
       /\ recv_line_gives_up(res)
       /\ Become(s, Outcome("close", told[s], idx[s], <<>>, TRUE, 0),
                 ReadEOF(pc[s], res.errno))

RecvKnock(s, R) ==
  /\ pc[s] = "recvKnock"
  /\ \E r \in R : \E o \in AfterKnockReply(told[s], idx[s], r) :
       Become(s, o, Read("recvKnock", r))

RecvSetup(s, R) ==
  /\ pc[s] = "recvSetup"
  /\ \E r \in R : \E o \in AfterSetupReply(told[s], idx[s], r) :
       Become(s, o, Read("recvSetup", r))

RecvAnother(s, R) ==
  /\ pc[s] = "recvYN"
  /\ \E r \in R : \E o \in AfterAnotherReply(told[s], idx[s], r) :
       Become(s, o, Read("recvYN", r))

\* ::close(session->fd)
CloseFd(s) ==
  /\ pc[s] = "close"
  /\ pc' = [pc EXCEPT ![s] = "dec"]
  /\ fdOpen' = [fdOpen EXCEPT ![s] = FALSE]
  /\ ev' = Quiet(s)
  /\ UNCHANGED <<told, idx, ioFailed, mainVars, rx, hist>>

\* --active_clients; the thread returns and its session is destroyed
Decrement(s) ==
  /\ pc[s] = "dec"
  /\ pc' = [pc EXCEPT ![s] = "free"]
  /\ active_clients' = active_clients - 1
  /\ told' = [told EXCEPT ![s] = {}]
  /\ idx' = [idx EXCEPT ![s] = 0]
  /\ ioFailed' = [ioFailed EXCEPT ![s] = FALSE]
  /\ ev' = Quiet(s)
  /\ hist' = [hist EXCEPT !.of[s] = NoHistory]
  /\ UNCHANGED <<fdOpen, jokes, mainPc, server_running, timer_running, idle,
                 listening, pending, rx>>

\* ------------------------------------------------------------------- main
\* chrono::seconds(10)
GRACE == 10

\* a step of main: no session read or sent anything in it
MainStep == ev' = Quiet(NoSession) /\ rx' = rx /\ hist' = hist

\* new ClientSession(), fd = cfd
FreshSession(s) ==
  /\ told' = [told EXCEPT ![s] = {}]
  /\ idx' = [idx EXCEPT ![s] = 0]
  /\ fdOpen' = [fdOpen EXCEPT ![s] = TRUE]
  /\ ioFailed' = [ioFailed EXCEPT ![s] = FALSE]

\* Startup without if (jokes.empty()) return 1
StartupSkipsEmptyCheck ==
  /\ mainPc = "load"
  /\ MainStep
  /\ \E n \in 0..MaxJokes :
       /\ jokes' = SubSeq(Pool, 1, n)
       /\ \/ /\ mainPc' = "loop"
             /\ listening' = TRUE
          \/ /\ mainPc' = "exit1"
             /\ listening' = FALSE
  /\ UNCHANGED <<server_running, active_clients, timer_running, idle, pending,
                 sessionVars>>

\* load_jokes_from_db, the empty check and the listening socket
Startup ==
  /\ mainPc = "load"
  /\ MainStep
  /\ \E n \in 0..MaxJokes :
       /\ jokes' = SubSeq(Pool, 1, n)
       /\ \/ /\ n > 0
             /\ mainPc' = "loop"
             /\ listening' = TRUE
          \/ /\ mainPc' = "exit1"     \* no jokes, or socket/bind/listen failed
             /\ listening' = FALSE
  /\ UNCHANGED <<server_running, active_clients, timer_running, idle, pending,
                 sessionVars>>

\* while (server_running.load()): enter the body and poll
LoopEnter ==
  /\ mainPc = "loop"
  /\ MainStep
  /\ server_running
  /\ mainPc' = "poll"
  /\ UNCHANGED <<jokes, server_running, active_clients, timer_running, idle,
                 listening, pending, sessionVars>>

\* the loop condition is false, or the error branch breaks
LoopExit ==
  /\ MainStep
  /\ \/ mainPc = "loop" /\ ~server_running
     \/ mainPc = "poll" /\ ~server_running
  /\ mainPc' = "closing"
  /\ UNCHANGED <<jokes, server_running, active_clients, timer_running, idle,
                 listening, pending, sessionVars>>

\* AcceptOk without timer_running = false
AcceptOkKeepsTimer(s) ==
  /\ mainPc = "poll"
  /\ MainStep
  /\ listening
  /\ pc[s] = "free"
  /\ active_clients' = active_clients + 1
  /\ pending' = s
  /\ pc' = [pc EXCEPT ![s] = "new"]
  /\ FreshSession(s)
  /\ mainPc' = "spawn"
  /\ UNCHANGED <<jokes, server_running, listening, timer_running, idle>>

\* poll says readable, accept returns cfd: count it, stop the idle timer,
\* allocate the session
AcceptOk(s) ==
  /\ mainPc = "poll"
  /\ MainStep
  /\ listening
  /\ pc[s] = "free"
  /\ active_clients' = active_clients + 1
  /\ timer_running' = FALSE
  /\ idle' = 0
  /\ pending' = s
  /\ pc' = [pc EXCEPT ![s] = "new"]
  /\ FreshSession(s)
  /\ mainPc' = "spawn"
  /\ UNCHANGED <<jokes, server_running, listening>>

\* poll says readable, accept returns -1
AcceptFails ==
  /\ mainPc = "poll"
  /\ MainStep
  /\ mainPc' = "acceptFailed"
  /\ UNCHANGED <<jokes, server_running, active_clients, timer_running, idle,
                 listening, pending, sessionVars>>

\* AcceptContinue that gives up the loop
AcceptFailureIsFatal ==
  /\ mainPc = "acceptFailed"
  /\ MainStep
  /\ mainPc' = "closing"
  /\ UNCHANGED <<jokes, server_running, active_clients, timer_running, idle,
                 listening, pending, sessionVars>>

\* if (errno == EINTR) continue; perror("accept"); continue
AcceptContinue ==
  /\ mainPc = "acceptFailed"
  /\ MainStep
  /\ mainPc' = "loop"
  /\ UNCHANGED <<jokes, server_running, active_clients, timer_running, idle,
                 listening, pending, sessionVars>>

\* poll returns -1 and no stop was requested: back to the loop condition
PollFails ==
  /\ mainPc = "poll"
  /\ MainStep
  /\ server_running
  /\ mainPc' = "loop"
  /\ UNCHANGED <<jokes, server_running, active_clients, timer_running, idle,
                 listening, pending, sessionVars>>

\* pthread_create succeeded: the worker owns the session
SpawnOk ==
  /\ mainPc = "spawn"
  /\ MainStep
  /\ pc' = [pc EXCEPT ![pending] = "start"]
  /\ pending' = NoSession
  /\ mainPc' = "loop"
  /\ UNCHANGED <<jokes, server_running, active_clients, timer_running, idle,
                 listening, told, idx, fdOpen, ioFailed>>

\* SpawnFails without active_clients.fetch_sub(1)
SpawnFailsKeepsCount ==
  /\ mainPc = "spawn"
  /\ MainStep
  /\ pc' = [pc EXCEPT ![pending] = "free"]
  /\ fdOpen' = [fdOpen EXCEPT ![pending] = FALSE]
  /\ pending' = NoSession
  /\ mainPc' = "loop"
  /\ UNCHANGED <<jokes, server_running, active_clients, timer_running, idle,
                 listening, told, idx, ioFailed>>

\* pthread_create failed: close, delete, undo the count
SpawnFails ==
  /\ mainPc = "spawn"
  /\ MainStep
  /\ pc' = [pc EXCEPT ![pending] = "free"]
  /\ fdOpen' = [fdOpen EXCEPT ![pending] = FALSE]
  /\ active_clients' = active_clients - 1
  /\ pending' = NoSession
  /\ mainPc' = "loop"
  /\ UNCHANGED <<jokes, server_running, timer_running, idle, listening,
                 told, idx, ioFailed>>

\* Tick whose timer never expires
TickNeverExpires ==
  /\ mainPc = "poll"
  /\ MainStep
  /\ IF active_clients = 0
     THEN IF ~timer_running
          THEN timer_running' = TRUE /\ idle' = 0 /\ mainPc' = "loop"
          ELSE mainPc' = "loop" /\ UNCHANGED <<timer_running, idle>>
     ELSE timer_running' = FALSE /\ idle' = 0 /\ mainPc' = "loop"
  /\ UNCHANGED <<jokes, server_running, active_clients, listening, pending,
                 sessionVars>>

\* poll timed out: the idle check
Tick ==
  /\ mainPc = "poll"
  /\ MainStep
  /\ IF active_clients = 0
     THEN IF ~timer_running
          THEN timer_running' = TRUE /\ idle' = 0 /\ mainPc' = "loop"
          ELSE IF idle >= GRACE
               THEN mainPc' = "idleExit" /\ UNCHANGED <<timer_running, idle>>
               ELSE mainPc' = "loop" /\ UNCHANGED <<timer_running, idle>>
     ELSE timer_running' = FALSE /\ idle' = 0 /\ mainPc' = "loop"
  /\ UNCHANGED <<jokes, server_running, active_clients, listening, pending,
                 sessionVars>>

\* a second goes by on steady_clock while the timer runs
Elapse ==
  /\ timer_running
  /\ MainStep
  /\ idle < GRACE
  /\ mainPc \in {"loop", "poll"}
  /\ idle' = idle + 1
  /\ UNCHANGED <<jokes, mainPc, server_running, active_clients, timer_running,
                 listening, pending, sessionVars>>

\* ::close(listen_fd), after either break
CloseListen ==
  /\ mainPc \in {"closing", "idleExit"}
  /\ MainStep
  /\ listening' = FALSE
  /\ mainPc' = "wait"
  /\ UNCHANGED <<jokes, server_running, active_clients, timer_running, idle,
                 pending, sessionVars>>

\* WaitExit that does not wait
WaitExitAtOnce ==
  /\ mainPc = "wait"
  /\ MainStep
  /\ mainPc' = "exit0"
  /\ UNCHANGED <<jokes, server_running, active_clients, timer_running, idle,
                 listening, pending, sessionVars>>

\* while (active_clients.load() > 0) sleep; return 0
WaitExit ==
  /\ mainPc = "wait"
  /\ MainStep
  /\ ~(active_clients > 0)
  /\ mainPc' = "exit0"
  /\ UNCHANGED <<jokes, server_running, active_clients, timer_running, idle,
                 listening, pending, sessionVars>>

\* SIGINT / SIGTERM, once the handlers are installed: the handler's first
\* statement. The handler runs on whichever thread takes the signal, so
\* main and the workers go on between its two statements.
signal_handler ==
  /\ mainPc \notin {"load", "exit0", "exit1"}
  /\ MainStep
  /\ server_running
  /\ server_running' = FALSE
  /\ UNCHANGED <<jokes, mainPc, active_clients, timer_running, idle, listening,
                 pending, sessionVars>>

\* the handler's second statement, ::shutdown(listen_fd, SHUT_RDWR); it has
\* no effect once main has closed listen_fd
ShutdownListen ==
  /\ mainPc \notin {"load", "exit0", "exit1"}
  /\ MainStep
  /\ ~server_running
  /\ listening
  /\ listening' = FALSE
  /\ UNCHANGED <<jokes, mainPc, server_running, active_clients, timer_running,
                 idle, pending, sessionVars>>

ProcessAlive == mainPc \notin {"exit0", "exit1"}

Start ==
  /\ jokes = <<>>
  /\ mainPc = "load"
  /\ server_running = TRUE
  /\ active_clients = 0
  /\ timer_running = FALSE
  /\ idle = 0
  /\ listening = FALSE
  /\ pending = NoSession
  /\ pc = [s \in Sessions |-> "free"]
  /\ told = [s \in Sessions |-> {}]
  /\ idx = [s \in Sessions |-> 0]
  /\ fdOpen = [s \in Sessions |-> FALSE]
  /\ ioFailed = [s \in Sessions |-> FALSE]
  /\ ev = Quiet(NoSession)
  /\ rx = RxIdle

Init == Start /\ hist = HistOff

\* the server with the worker slots S, the clients sending lines of R
Server(S, R) ==
  \/ Startup
  \/ LoopEnter
  \/ LoopExit
  \/ \E s \in S : AcceptOk(s)
  \/ AcceptFails
  \/ AcceptContinue
  \/ PollFails
  \/ SpawnOk
  \/ SpawnFails
  \/ Tick
  \/ Elapse
  \/ CloseListen
  \/ WaitExit
  \/ signal_handler
  \/ ShutdownListen
  \/ \E s \in S : ProcessAlive /\ WorkerStart(s)
  \/ \E s \in S : ProcessAlive /\ RecvFails(s)
  \/ \E s \in S : ProcessAlive /\ RecvKnock(s, R)
  \/ \E s \in S : ProcessAlive /\ RecvSetup(s, R)
  \/ \E s \in S : ProcessAlive /\ RecvAnother(s, R)
  \/ \E s \in S : ProcessAlive /\ CloseFd(s)
  \/ \E s \in S : ProcessAlive /\ Decrement(s)

\* concurrent sessions, the clients sending the protocol's exact texts
\* (a text sent at the wrong prompt is a wrong reply)
Next == Server(Sessions, CoreReplies)

Spec == Init /\ [][Next]_vars

\* a single session at a time, the client sending any line of Replies
NextDialogue == Server({"A"}, Replies)

Dialogue == Init /\ [][NextDialogue]_vars

\* the same one-slot server with the history of the session kept
ChronicleInit == Start /\ hist = HistOn

Chronicle == ChronicleInit /\ [][NextDialogue]_vars

\* ---------------------------------------------------- replies, one by one
\* lines a client may send in place of the text e: e itself, e in capitals,
\* in small letters, with the case of one letter changed, with one
\* character left out, doubled or replaced, with a blank put in
toupper(c) ==
  IF \E u \in DOMAIN Upper2Lower : Upper2Lower[u] = c
  THEN CHOOSE u \in DOMAIN Upper2Lower : Upper2Lower[u] = c
  ELSE c

OtherCase(c) == IF c \in DOMAIN Upper2Lower THEN Upper2Lower[c] ELSE toupper(c)

Without(e, k) == SubSeq(e, 1, k - 1) \o SubSeq(e, k + 1, Len(e))
With(e, k, c) == SubSeq(e, 1, k) \o <<c>> \o SubSeq(e, k + 1, Len(e))

Variants(e) ==
  { e, lower(e), [k \in 1..Len(e) |-> toupper(e[k])] }
    \cup { [e EXCEPT ![k] = OtherCase(e[k])] : k \in 1..Len(e) }
    \cup { Without(e, k) : k \in 1..Len(e) }
    \cup { With(e, k, e[k]) : k \in 1..Len(e) }
    \cup { With(e, k, " ") : k \in 1..Len(e) - 1 }
    \cup { [e EXCEPT ![k] = "x"] : k \in 1..Len(e) }

\* blanks a line can carry in front and behind (recv_line drops every \r
\* and ends the line at \n)
Pads == { <<>>, <<" ">>, <<"\t">> }

\* e with blanks around it, and e in capitals between a tab and a blank
Padded(e) ==
  { p \o e \o q : p \in Pads, q \in Pads }
    \cup { <<"\t">> \o [k \in 1..Len(e) |-> toupper(e[k])] \o <<" ">> }

Expected ==
  { sWhosThere, sY, sYes, sN, sNo } \cup { expect2(Pool[j]) : j \in 1..MaxJokes }

\* the texts whose variants are sent: those of the first joke and the fixed
\* ones
Probed == { sWhosThere, sY, sYes, sN, sNo, expect2(Pool[1]) }

MatchReplies ==
  UNION { Variants(e) : e \in Probed } \cup UNION { Padded(e) : e \in Expected }

\* a worker has just sent its first knock prompt for joke i of n
FirstPrompt(n, i) ==
    /\ jokes = SubSeq(Pool, 1, n)
    /\ mainPc = "loop"
    /\ server_running = TRUE
    /\ active_clients = 1
    /\ timer_running = FALSE
    /\ idle = 0
    /\ listening = TRUE
    /\ pending = NoSession
    /\ pc = [s \in Sessions |-> IF s = "A" THEN "recvKnock" ELSE "free"]
    /\ told = [s \in Sessions |-> IF s = "A" THEN {i} ELSE {}]
    /\ idx = [s \in Sessions |-> IF s = "A" THEN i ELSE 0]
    /\ fdOpen = [s \in Sessions |-> s = "A"]
    /\ ioFailed = [s \in Sessions |-> FALSE]
    /\ ev = Event("A", NoRead,
                  Outcome("recvKnock", {i}, i, << LKnock >>, FALSE, i), "none")

MatchInit ==
  /\ \E n \in 1..MaxJokes : \E i \in 1..n : FirstPrompt(n, i)
  /\ rx = RxIdle
  /\ hist = HistOff

\* the worker of that session alone, its client sending the lines above
NextMatching ==
  \/ RecvKnock("A", MatchReplies)
  \/ RecvSetup("A", MatchReplies)
  \/ RecvAnother("A", MatchReplies)
  \/ RecvFails("A")
  \/ CloseFd("A")
  \/ Decrement("A")

Matching == MatchInit /\ [][NextMatching]_vars

\* ------------------------------------------------- recv_line, byte by byte
\* the runs of the byte string q
RECURSIVE Encode(_)
Encode(q) ==
  IF q = <<>> THEN <<>>
  ELSE push_back(Encode(SubSeq(q, 1, Len(q) - 1)), q[Len(q)])

\* what a client puts on the wire before it closes: every short string of
\* a, CR and LF, and lines around the cap: just under, at, and over it,
\* ended or not, with a CR before the cut, and long enough to be cut twice
ShortStreams ==
  { Encode(q) : q \in UNION { [1..n -> {"a", "\r", "\n"}] : n \in 0..MaxShort } }

LongStreams ==
  { <<Run("a", n)>> \o t :
      n \in { LINE_CAP, LINE_CAP + 1, LINE_CAP + 2 },
      t \in { <<>>, <<Run("\n", 1)>>,
              <<Run("\r", 1), Run("\n", 1), Run("b", 1), Run("\n", 1)>> } }
    \cup { <<Run("a", LINE_CAP), Run("\r", 1), Run("a", 2), Run("\n", 1)>>,
           <<Run("a", 2 * LINE_CAP + 3), Run("\n", 1)>> }

\* the session of FirstPrompt is about to call recv_line
TransportInit ==
  /\ FirstPrompt(1, 1)
  /\ hist = HistOff
  /\ \E w \in ShortStreams \cup LongStreams :
       rx = [at |-> "called", wire |-> w, line |-> <<>>, start |-> <<>>]

\* recv_line called again and again on what the client sent
NextTransport ==
  \/ RecvLineCall
  \/ RecvByte
  \/ RecvNothing

Transport == TransportInit /\ [][NextTransport]_vars

\* The main thread is scheduled: each of its steps is taken when it stays
\* possible. The steady clock advances while the timer runs. poll returns 0
\* after its 1000 ms whenever no connection is waiting, so a main thread
\* that keeps coming back to poll keeps getting timeouts. Nothing is
\* assumed of the clients, of accept, or of signals.
MainFairness ==
  /\ WF_vars(Startup)
  /\ WF_vars(LoopEnter)
  /\ WF_vars(LoopExit)
  /\ WF_vars(AcceptContinue)
  /\ WF_vars(SpawnOk \/ SpawnFails)
  /\ SF_vars(Tick)
  /\ WF_vars(Elapse)
  /\ WF_vars(CloseListen)
  /\ WF_vars(WaitExit)

FairDialogue == Dialogue /\ MainFairness

\* ================================================================= claims
ReadStates == {"recvKnock", "recvSetup", "recvYN"}

\* the step is one of session s in which recv_line returned a line at `at`
ReadAt(s, at) == pc[s] = at /\ ev'.s = s /\ ev'.at = at /\ ~ev'.eof

AllTold(s) == told[s] = 1..Len(jokes)

WrongKnock(r) == ~iequals(r, sWhosThere)
WrongSetup(r, s) == ~iequals(r, jokes[idx[s]].setup \o sWho)
SaysYes(r) == iequals(r, sY) \/ iequals(r, sYes)
SaysNo(r) == iequals(r, sN) \/ iequals(r, sNo)

\* C1: a wrong reply to the setup prompt of joke J restarts the exchange for
\* the same joke J: no index is picked, idx and the told set stay as they are
\* (stated for the steps in which no read or write failed)
C1_WrongSetupRestartsSameJoke ==
  [][\A s \in Sessions :
       (ReadAt(s, "recvSetup") /\ WrongSetup(ev'.reply, s) /\ ~ev'.failed)
         => /\ ev'.picked = 0
            /\ idx'[s] = idx[s]
            /\ told'[s] = told[s]]_vars

\* C2: a wrong reply at the knock step or at the setup step never ends the
\* session: if no read or write failed, the server has sent another prompt
\* and waits for the reply to it
C2_WrongReplyNeverEndsSession ==
  [][\A s \in Sessions :
       (/\ \/ ReadAt(s, "recvKnock") /\ WrongKnock(ev'.reply)
           \/ ReadAt(s, "recvSetup") /\ WrongSetup(ev'.reply, s)
        /\ ~ev'.failed)
         => /\ pc'[s] \in ReadStates
            /\ fdOpen'[s]
            /\ ev'.sent # <<>>
            /\ HasInput(ev'.sent[Len(ev'.sent)])]_vars

\* C3: every selection picks an index that is not in the session's told set
\* and puts it there, so that no index is selected twice in a session
C3_SelectionIsFresh ==
  [][\A s \in Sessions :
       (ev'.s = s /\ ev'.picked # 0)
         => /\ ev'.picked \notin told[s]
            /\ ev'.picked \in 1..Len(jokes)
            /\ told'[s] = told[s] \cup {ev'.picked}
            /\ idx'[s] = ev'.picked]_vars

\* a second joke was selected right after a wrong setup reply
C3_Witness ==
  /\ ev.at = "recvSetup"
  /\ ev.picked # 0
  /\ Cardinality(told[ev.s]) = 2
  /\ pc[ev.s] = "recvKnock"

\* C4: after a wrong reply to a setup prompt the server sends exactly the
\* correction naming "<setup> who?" and then a fresh "Knock knock! <input>"
C4_WrongSetupCorrectionThenKnock ==
  [][\A s \in Sessions :
       (ReadAt(s, "recvSetup") /\ WrongSetup(ev'.reply, s) /\ ~ev'.failed)
         => /\ ev'.sent = << LCorrect(jokes[idx[s]].setup \o sWho), LKnock >>
            /\ pc'[s] = "recvKnock"]_vars

\* C5: after a wrong reply to "Knock knock! <input>" the server sends exactly
\* the correction naming "Who's there?" and the same prompt again, and reads
\* again; the selected joke and the told set are unchanged.  A failing send
\* cuts the two lines short and ends the session.
C5_WrongKnockReprompts ==
  [][\A s \in Sessions :
       (ReadAt(s, "recvKnock") /\ WrongKnock(ev'.reply))
         => /\ ev'.picked = 0
            /\ idx'[s] = idx[s]
            /\ told'[s] = told[s]
            /\ IF ev'.failed
               THEN /\ pc'[s] = "close"
                    /\ ev'.sent \in {<<>>, << LCorrect(sWhosThere) >>}
               ELSE /\ pc'[s] = "recvKnock"
                    /\ ev'.sent = << LCorrect(sWhosThere), LKnock >>]_vars

\* "Who there?" was answered with the correction and the prompt
C5_Witness ==
  /\ ev.at = "recvKnock"
  /\ ev.reply = <<"W","h","o"," ","t","h","e","r","e","?">>
  /\ ev.sent = << LCorrect(sWhosThere), LKnock >>
  /\ pc[ev.s] = "recvKnock"
  /\ idx[ev.s] \in told[ev.s]

\* C6: at the continuation prompt a yes (any case, blanks around) starts a
\* new play_joke -- which selects an untold joke and prompts, or finds none
\* left -- and a no ends the session: nothing is sent, and the next step of
\* the worker closes the socket
C6_YesPlaysAgainNoEnds ==
  [][\A s \in Sessions :
       /\ (ReadAt(s, "recvYN") /\ SaysYes(ev'.reply))
            => IF AllTold(s)
               THEN /\ pc'[s] = "close"
                    /\ ev'.picked = 0
                    /\ ev'.sent \in {<<>>, << LNoMore >>}
               ELSE /\ ev'.picked \in (1..Len(jokes)) \ told[s]
                    /\ told'[s] = told[s] \cup {ev'.picked}
                    /\ \/ pc'[s] = "recvKnock" /\ ev'.sent = << LKnock >>
                       \/ pc'[s] = "close" /\ ev'.sent = <<>> /\ ev'.failed
       /\ (ReadAt(s, "recvYN") /\ SaysNo(ev'.reply))
            => /\ pc'[s] = "close"
               /\ ev'.sent = <<>>
               /\ ev'.picked = 0
               /\ ~ev'.failed
       /\ (pc[s] = "close" /\ ev'.s = s)
            => /\ ev'.sent = <<>>
               /\ ev'.at = "none"
               /\ ~fdOpen'[s]]_vars

\* " yEs" was taken for a yes: a new joke was selected and prompted
C6_Witness ==
  /\ ev.at = "recvYN"
  /\ ev.reply = <<" ","y","E","s">>
  /\ ev.picked # 0
  /\ ev.sent = << LKnock >>
  /\ pc[ev.s] = "recvKnock"

\* C7: a reply to the continuation prompt that is neither yes nor no selects
\* no joke and leaves the told set alone; the server sends the reminder and
\* the same prompt again and reads again (a failing send ends the session)
C7_InvalidAnswerReprompts ==
  [][\A s \in Sessions :
       (ReadAt(s, "recvYN") /\ ~SaysYes(ev'.reply) /\ ~SaysNo(ev'.reply))
         => /\ ev'.picked = 0
            /\ idx'[s] = idx[s]
            /\ told'[s] = told[s]
            /\ fdOpen'[s] = fdOpen[s]
            /\ IF ev'.failed
               THEN /\ pc'[s] = "close"
                    /\ ev'.sent \in {<<>>, << LRemind >>}
               ELSE /\ pc'[s] = "recvYN"
                    /\ ev'.sent = << LRemind, LAnother >>]_vars

\* "maybe" was answered with the reminder and the prompt
C7_Witness ==
  /\ ev.at = "recvYN"
  /\ ev.reply = <<"m","a","y","b","e">>
  /\ ev.sent = << LRemind, LAnother >>
  /\ pc[ev.s] = "recvYN"

\* the step of s enters play_joke: the first call, a yes, or a wrong setup
\* reply whose correction was sent
EntersPlayJoke(s) ==
  /\ ev'.s = s
  /\ \/ pc[s] = "start"
     \/ ReadAt(s, "recvYN") /\ SaysYes(ev'.reply)
     \/ /\ ReadAt(s, "recvSetup") /\ WrongSetup(ev'.reply, s)
        /\ ev'.sent # <<>>

Lines(out) == {out[k] : k \in 1..Len(out)}

\* C8: play_joke entered with every index told sends "I have no more jokes to
\* tell." and no prompt, and the session ends: the worker closes the socket,
\* then decrements the counter.  The message is sent only when every index
\* is told.
C8_ExhaustionEndsSession ==
  [][\A s \in Sessions :
       /\ (EntersPlayJoke(s) /\ AllTold(s))
            => /\ pc'[s] = "close"
               /\ \A l \in Lines(ev'.sent) : ~HasInput(l)
               /\ ev'.failed \/ ev'.sent[Len(ev'.sent)] = LNoMore
       /\ (ev'.s = s /\ LNoMore \in Lines(ev'.sent))
            => AllTold(s) /\ told'[s] = told[s]
       /\ (pc[s] = "close" /\ ev'.s = s)
            => pc'[s] = "dec" /\ ~fdOpen'[s]
       /\ (pc[s] = "dec" /\ ev'.s = s)
            => active_clients' = active_clients - 1]_vars

\* after a yes with every joke told: the message, and the worker about to close
C8_Witness ==
  /\ ev.at = "recvYN"
  /\ ev.sent = << LNoMore >>
  /\ pc[ev.s] = "close"
  /\ told[ev.s] = 1..Len(jokes)
  /\ Len(jokes) = MaxJokes

\* C9: a failed read or write ends the session at once: the worker is at the
\* close, its later steps read and send nothing, close the socket and
\* decrement the counter once; main and the other sessions are left alone
C9_FailureEndsOnlyThatSession ==
  [][\A s \in Sessions :
       /\ ioFailed'[s] => pc'[s] \in {"close", "dec"}
       /\ (ev'.s = s /\ ev'.failed)
            => /\ ioFailed'[s]
               /\ pc'[s] = "close"
               /\ UNCHANGED mainVars
               /\ \A x \in Sessions \ {s} :
                    /\ pc'[x] = pc[x] /\ told'[x] = told[x] /\ idx'[x] = idx[x]
                    /\ fdOpen'[x] = fdOpen[x] /\ ioFailed'[x] = ioFailed[x]
       /\ (ioFailed[s] /\ ev'.s = s)
            => /\ ev'.at = "none" /\ ev'.sent = <<>>
               /\ \/ /\ pc[s] = "close" /\ pc'[s] = "dec"
                     /\ fdOpen[s] /\ ~fdOpen'[s]
                     /\ active_clients' = active_clients
                  \/ /\ pc[s] = "dec" /\ pc'[s] = "free"
                     /\ ~fdOpen[s]
                     /\ active_clients' = active_clients - 1
                     /\ active_clients' >= 0]_vars

\* one session failed and has closed its socket while another is mid-joke
\* and main is still accepting
C9_Witness ==
  \E s, x \in Sessions :
    /\ s # x
    /\ ioFailed[s] /\ pc[s] = "dec" /\ ~fdOpen[s]
    /\ pc[x] = "recvSetup" /\ fdOpen[x]
    /\ mainPc = "loop" /\ server_running
    /\ active_clients = 2

\* C10: a step of one session leaves every other session's position,
\* selected joke, told set, socket and failure flag unchanged
C10_SessionsIndependent ==
  [][\A a, b \in Sessions :
       (a # b /\ ev'.s = a)
         => /\ pc'[b] = pc[b]
            /\ told'[b] = told[b]
            /\ idx'[b] = idx[b]
            /\ fdOpen'[b] = fdOpen[b]
            /\ ioFailed'[b] = ioFailed[b]]_vars

\* two sessions in the middle of different jokes, one has just moved
C10_Witness ==
  \E a, b \in Sessions :
    /\ ev.s = a /\ ev.at = "recvKnock" /\ pc[a] = "recvSetup"
    /\ pc[b] = "recvYN"
    /\ idx[a] # idx[b]
    /\ told[a] # told[b]

\* the accepted connections whose worker has not executed its decrement
\* (the one main has counted and not yet handed to a thread among them)
Live == {s \in Sessions : pc[s] # "free"}

\* C11: active_clients is never negative and is the number of accepted
\* connections not yet decremented for, under every interleaving of main
\* and the workers, the failed pthread_create included
C11_CounterCountsLiveSessions ==
  /\ active_clients >= 0
  /\ active_clients = Cardinality(Live)
  /\ pending # NoSession => pc[pending] = "new"
  /\ \A s \in Sessions : pc[s] = "new" => pending = s

\* main has counted a second connection and not yet created its thread,
\* while the first session's worker is between its close and its decrement
C11_Witness ==
  /\ mainPc = "spawn"
  /\ active_clients = 2
  /\ \E s \in Sessions : pc[s] = "dec"

\* C12: the idle break is taken only at a tick that finds active_clients = 0
\* with the timer running for at least GRACE seconds; an accept stops the
\* timer, so a running timer means no session has been live since it
\* started, and the idle break never happens while a session is live
C12_IdleExitOnlyWhenIdle ==
  /\ mainPc = "idleExit" =>
       active_clients = 0 /\ timer_running /\ idle >= GRACE /\ Live = {}
  /\ timer_running => active_clients = 0 /\ Live = {}

\* the tick that takes the idle break: nobody connected for GRACE seconds
C12_Witness ==
  /\ mainPc = "idleExit"
  /\ timer_running
  /\ idle = GRACE
  /\ active_clients = 0

\* no connection is live and none is arriving
NoConnection == active_clients = 0 /\ mainPc # "acceptFailed"

Exited == mainPc \in {"exit0", "exit1"}

\* C13: once the counter is 0 and stays so because nobody connects, the
\* server exits, and after that no connection gets through (listen_fd is
\* closed); while the timer has not run GRACE seconds and no stop was
\* requested the server is still listening, and an accepted connection
\* stops the timer, so the count of seconds starts again
C13_IdleServerStops ==
  /\ <>[]NoConnection => <>Exited
  /\ [](Exited => ~listening)
  /\ []((server_running /\ timer_running /\ idle < GRACE)
          => listening /\ mainPc \in {"loop", "poll", "acceptFailed"})
  /\ [][active_clients' > active_clients => ~timer_running' /\ idle' = 0]_vars

\* the server has gone by the idle break, GRACE seconds after a tick found
\* nobody connected, with no stop request
C13_Witness ==
  /\ mainPc = "exit0"
  /\ server_running
  /\ timer_running /\ idle = GRACE
  /\ ~listening

\* C14: once the handler has set server_running to false, active_clients is
\* never incremented again and no session is created, wherever main is in
\* its loop; and the sessions in flight are left to their workers: a socket
\* is closed only by its own worker, at the close it reached by itself
C14_NoAcceptAfterStop ==
  [][~server_running =>
       /\ active_clients' <= active_clients
       /\ \A s \in Sessions :
            /\ pc[s] = "free" => pc'[s] = "free"
            /\ (fdOpen[s] /\ ~fdOpen'[s]) => pc[s] = "close" /\ ev'.s = s]_vars

\* C15: main returns only when active_clients is 0, every accepted session
\* having closed its socket and executed its decrement, whether the loop was
\* left by a stop request or by the idle break; and after a stop request,
\* once the counter is 0 for good, main returns
C15_ExitsOnlyWhenNoSession ==
  /\ [](Exited => /\ active_clients = 0
                  /\ Live = {}
                  /\ \A s \in Sessions : ~fdOpen[s])
  /\ [][(~Exited /\ Exited') => mainPc \in {"load", "wait"}]_vars
  /\ <>[](~server_running /\ active_clients = 0) => <>Exited

\* main has returned after a stop request, all sockets closed
C15_Witness ==
  /\ mainPc = "exit0"
  /\ ~server_running
  /\ active_clients = 0
  /\ \A s \in Sessions : ~fdOpen[s]

\* C16: a ::recv or ::send that returns -1 with errno EINTR is retried by
\* recv_line / send_line: no step of a session fails, and so ends the
\* session, on an interrupted call
C16_InterruptedCallIsRetried ==
  ev.failed => ev.errno # "EINTR"

\* C17: with an empty catalog main returns 1 from the load: the listening
\* socket never exists, nothing is counted, no session exists, no step of
\* a worker ever happens
C17_EmptyCatalogIsFatal ==
  jokes = <<>> =>
    /\ mainPc \in {"load", "exit1"}
    /\ ~listening
    /\ active_clients = 0
    /\ Live = {}
    /\ \A s \in Sessions : ~fdOpen[s]
    /\ ev = Quiet(NoSession)

\* main has returned 1 with nothing loaded
C17_Witness ==
  /\ mainPc = "exit1"
  /\ jokes = <<>>
  /\ ~listening

\* C18: the step on which accept fails changes nothing but main's position;
\* main then goes back to the loop condition, leaving the counter, the
\* pending session and every session as they are; and whenever main polls
\* a listening socket with a slot free, a connection can be accepted
C18_FailedAcceptIsNotFatal ==
  /\ [][(mainPc # "acceptFailed" /\ mainPc' = "acceptFailed")
          => /\ mainPc = "poll"
             /\ UNCHANGED <<active_clients, pending, server_running, listening,
                            timer_running, idle, sessionVars>>]_vars
  /\ [][(mainPc = "acceptFailed" /\ mainPc' # "acceptFailed")
          => /\ mainPc' = "loop"
             /\ UNCHANGED <<active_clients, pending, server_running, listening,
                            timer_running, idle, sessionVars>>]_vars
  /\ [](mainPc = "acceptFailed" => ~Exited)
  /\ []((mainPc = "poll" /\ listening /\ \E s \in Sessions : pc[s] = "free")
          => ENABLED (\E s \in Sessions : AcceptOk(s)))

\* accept has just failed while one session is being served and the server
\* has not been asked to stop
C18_Witness ==
  /\ mainPc = "acceptFailed"
  /\ active_clients = 1
  /\ \E s \in Sessions : pc[s] = "recvSetup"
  /\ server_running /\ listening

\* the happy path of session s when the client's reply to the setup prompt
\* of joke jk is who(jk): the setup prompt after "Who's there?", the
\* punchline and the Y/N prompt after who(jk), nothing after "N" but the
\* close of the socket (each stated for the steps in which no send failed)
HappyPath(s, who(_)) ==
  /\ (ReadAt(s, "recvKnock") /\ ev'.reply = sWhosThere /\ ~ev'.failed)
       => /\ ev'.sent = << LSetup(jokes[idx[s]]) >>
          /\ pc'[s] = "recvSetup"
          /\ idx'[s] = idx[s]
  /\ (ReadAt(s, "recvSetup") /\ ev'.reply = who(jokes[idx[s]]) /\ ~ev'.failed)
       => /\ ev'.sent = << LPunch(jokes[idx[s]]), LAnother >>
          /\ pc'[s] = "recvYN"
  /\ (ReadAt(s, "recvYN") /\ ev'.reply = sN)
       => /\ ev'.sent = <<>>
          /\ pc'[s] = "close"
          /\ ~ev'.failed
  /\ (pc[s] = "close" /\ ev'.s = s)
       => /\ ev'.sent = <<>>
          /\ fdOpen[s] /\ ~fdOpen'[s]

WholeSetupWho(jk) == jk.setup \o sWho
FirstWordWho(jk) == FirstWord(jk.setup) \o sWho

NonBlank(a) == {k \in 1..Len(a) : a[k] \notin {" ", "\t", "\r", "\n"}}

SameLetter(c, d) ==
  \/ c = d
  \/ c \in DOMAIN Upper2Lower /\ Upper2Lower[c] = d
  \/ d \in DOMAIN Upper2Lower /\ Upper2Lower[d] = c

\* a and b are the same text but for the blanks around them and the case
\* of their letters: from the first to the last non-blank they have the
\* same length and agree letter by letter
SameText(a, b) ==
  LET A == NonBlank(a)
      B == NonBlank(b)
  IN  IF A = {} \/ B = {} THEN A = {} /\ B = {}
      ELSE LET i == CHOOSE k \in A : \A m \in A : k <= m
               j == CHOOSE k \in A : \A m \in A : k >= m
               p == CHOOSE k \in B : \A m \in B : k <= m
               q == CHOOSE k \in B : \A m \in B : k >= m
           IN  /\ j - i = q - p
               /\ \A m \in 0..(j - i) : SameLetter(a[i + m], b[p + m])

\* C20: a reply is accepted at a step exactly when it is the expected text
\* but for blanks around it and the case of its letters; any other reply,
\* one character away included, is rejected (stated for the steps in which
\* no send failed, where what was sent tells which way the reply was taken)
C20_AcceptedIffSameText ==
  [][\A s \in Sessions :
       /\ (ReadAt(s, "recvKnock") /\ ~ev'.failed)
            => IF SameText(ev'.reply, sWhosThere)
               THEN ev'.sent = << LSetup(jokes[idx[s]]) >>
               ELSE /\ Len(ev'.sent) = 2
                    /\ ev'.sent[1].tag = "correction"
                    /\ ev'.sent[2] = LKnock
       /\ (ReadAt(s, "recvSetup") /\ ~ev'.failed)
            => IF SameText(ev'.reply, jokes[idx[s]].setup \o sWho)
               THEN ev'.sent = << LPunch(jokes[idx[s]]), LAnother >>
               ELSE ev'.sent[1].tag = "correction"
       /\ (ReadAt(s, "recvYN") /\ ~ev'.failed)
            => IF SameText(ev'.reply, sN) \/ SameText(ev'.reply, sNo)
               THEN ev'.sent = <<>> /\ pc'[s] = "close"
               ELSE IF SameText(ev'.reply, sY) \/ SameText(ev'.reply, sYes)
               THEN ev'.sent \in {<< LKnock >>, << LNoMore >>, <<>>}
               ELSE ev'.sent = << LRemind, LAnother >>]_vars

\* "\tWHO'S THERE? " was accepted at the knock prompt
C20_Witness ==
  /\ ev.at = "recvKnock"
  /\ ev.reply = <<"\t","W","H","O","'","S"," ","T","H","E","R","E","?"," ">>
  /\ ev.sent = << LSetup(jokes[idx[ev.s]]) >>
  /\ pc[ev.s] = "recvSetup"

\* C21: while a session lives no step takes an index out of its told set,
\* and the index a step selects is in told at the end of that step whatever
\* was sent of that joke: also when the knock prompt could not be sent
C21_ToldOnlyGrows ==
  [][\A s \in Sessions :
       /\ (pc[s] # "free" /\ pc'[s] # "free") => told[s] \subseteq told'[s]
       /\ (ev'.s = s /\ ev'.picked # 0)
            => /\ ev'.picked \notin told[s]
               /\ told'[s] = told[s] \cup {ev'.picked}
       /\ (ev'.s = s /\ ev'.picked = 0 /\ pc'[s] # "free")
            => told'[s] = told[s]]_vars

\* after a yes a second joke was selected, its knock prompt could not be
\* sent, and both indices are in told
C21_Witness ==
  /\ ev.at = "recvYN"
  /\ ev.failed
  /\ ev.picked # 0
  /\ ev.sent = <<>>
  /\ pc[ev.s] = "close"
  /\ ev.picked \in told[ev.s]
  /\ Cardinality(told[ev.s]) = 2

\* byte strings as runs, without the loop of recv_line: the number of bytes,
\* the runs before the first LF, the same runs with neighbours of one
\* character joined, the first n bytes, what follows the first n bytes, and
\* how many bytes hold the first n bytes that are not CR
RECURSIVE Count(_)
Count(w) == IF w = <<>> THEN 0 ELSE Count(Tail(w)) + w[1].n

RECURSIVE Before(_)
Before(w) ==
  IF w = <<>> \/ w[1].c = "\n" THEN <<>> ELSE <<w[1]>> \o Before(Tail(w))

RECURSIVE Joined(_)
Joined(w) ==
  IF Len(w) <= 1 THEN w
  ELSE LET h == Joined(SubSeq(w, 1, Len(w) - 1))
           r == w[Len(w)]
       IN  IF h[Len(h)].c = r.c
           THEN [h EXCEPT ![Len(h)].n = @ + r.n]
           ELSE Append(h, r)

RECURSIVE Take(_, _)
Take(w, n) ==
  IF n = 0 \/ w = <<>> THEN <<>>
  ELSE IF w[1].n >= n THEN << Run(w[1].c, n) >>
  ELSE <<w[1]>> \o Take(Tail(w), n - w[1].n)

RECURSIVE Drop(_, _)
Drop(w, n) ==
  IF n = 0 \/ w = <<>> THEN w
  ELSE IF w[1].n > n THEN << Run(w[1].c, w[1].n - n) >> \o Tail(w)
  ELSE Drop(Tail(w), n - w[1].n)

RECURSIVE BytesFor(_, _)
BytesFor(w, n) ==
  IF n = 0 \/ w = <<>> THEN 0
  ELSE IF w[1].c = "\r" THEN w[1].n + BytesFor(Tail(w), n)
  ELSE IF w[1].n >= n THEN n
  ELSE w[1].n + BytesFor(Tail(w), n - w[1].n)

\* what a call of recv_line on the bytes w is to give: the client's line is
\* the bytes before the first LF, CRs left out; if that has more than
\* LINE_CAP characters the reply is its first LINE_CAP + 1 and the rest of
\* w stays on the wire; else, if there is an LF, the reply is the line and
\* the LF is consumed with it; else there is no reply
ReplyOf(w) ==
  LET head == Before(w)
      text == Joined(SelectSeq(head, LAMBDA r : r.c # "\r"))
  IN  IF Count(text) > LINE_CAP
      THEN [ok |-> TRUE, line |-> Take(text, LINE_CAP + 1),
            rest |-> Drop(w, BytesFor(w, LINE_CAP + 1))]
      ELSE IF Len(head) < Len(w)
      THEN [ok |-> TRUE, line |-> text, rest |-> Drop(w, Count(head) + 1)]
      ELSE [ok |-> FALSE, line |-> <<>>, rest |-> <<>>]

\* C22: a line recv_line returns holds no CR and no LF and at most
\* LINE_CAP + 1 characters; it is the client's line, or its first
\* LINE_CAP + 1 characters when the client's line is longer, and then what
\* is left of the client's line stays on the wire and is where the next
\* call of recv_line starts reading
C22_LinesAreCapped ==
  [][/\ (rx.at = "loop" /\ rx'.at = "true")
          => /\ \A k \in 1..Len(rx'.line) : rx'.line[k].c \notin {"\r", "\n"}
             /\ Count(rx'.line) <= LINE_CAP + 1
             /\ ReplyOf(rx.start).ok
             /\ rx'.line = ReplyOf(rx.start).line
             /\ rx'.wire = ReplyOf(rx.start).rest
     /\ (rx.at = "loop" /\ rx'.at = "false" /\ rx.wire = <<>>)
          => ~ReplyOf(rx.start).ok
     /\ (rx.at = "true" /\ rx'.at = "loop")
          => rx'.start = rx.wire /\ rx'.wire = rx.wire /\ rx'.line = <<>>]_vars

\* a line of LINE_CAP + 2 characters was cut: LINE_CAP + 1 of them are the
\* reply, the last one and the LF are still to be read
C22_Witness ==
  /\ rx.at = "true"
  /\ rx.line = << Run("a", LINE_CAP + 1) >>
  /\ rx.wire = << Run("a", 1), Run("\n", 1) >>

\* the prompt a worker waits behind at each read
PromptAt(at, i) ==
  CASE at = "recvKnock" -> LKnock
    [] at = "recvSetup" -> LSetup(jokes[i])
    [] at = "recvYN" -> LAnother

\* C23: a worker reads only at the three reads, one line a step; a step that
\* leaves the worker at a read has sent that read's "<input>" prompt last
\* and no other line with the marker, and a step that leaves it anywhere
\* else has sent no line with the marker: so every read comes straight
\* after a prompt, and one read lies between two prompts
C23_PromptReplyLockstep ==
  [][\A s \in Sessions :
       ev'.s = s
         => /\ ev'.at # "none" => ev'.at = pc[s] /\ pc[s] \in ReadStates
            /\ pc[s] \in ReadStates => ev'.at = pc[s]
            /\ \A k \in 1..(Len(ev'.sent) - 1) : ~HasInput(ev'.sent[k])
            /\ IF pc'[s] \in ReadStates
               THEN /\ ev'.sent # <<>>
                    /\ HasInput(ev'.sent[Len(ev'.sent)])
                    /\ ev'.sent[Len(ev'.sent)] = PromptAt(pc'[s], idx'[s])
               ELSE \A k \in 1..Len(ev'.sent) : ~HasInput(ev'.sent[k])]_vars

\* a wrong setup reply: the correction, without the marker, was followed by
\* a knock prompt before the next read
C23_Witness ==
  /\ ev.at = "recvSetup"
  /\ Len(ev.sent) = 2
  /\ ev.sent[1].tag = "correction"
  /\ ev.sent[2] = LKnock
  /\ pc[ev.s] = "recvKnock"

\* the history of the one session of Chronicle
History(s) == hist.of[s]

\* the jokes whose punchline was sent in the session
Punched(s) ==
  {j \in 1..Len(jokes) :
     \E k \in 1..Len(History(s).punched) :
       History(s).punched[k] = jokes[j].punchline}

\* C24, every invocation: a step that enters play_joke, from handle_client
\* or from play_joke itself after a wrong setup reply, either selects one
\* index that was not told and adds it to told, or finds every index told,
\* selects nothing and ends the session; and the wrong setup reply that
\* brings the count of such replies to the catalog size ends the session
C24_EveryCallSelectsOrEnds ==
  [][\A s \in Sessions :
       /\ EntersPlayJoke(s)
            => \/ /\ ev'.picked # 0
                  /\ ev'.picked \notin told[s]
                  /\ told'[s] = told[s] \cup {ev'.picked}
                  /\ History(s)'.picks = History(s).picks + 1
               \/ /\ AllTold(s)
                  /\ ev'.picked = 0
                  /\ told'[s] = told[s]
                  /\ History(s)'.picks = History(s).picks
                  /\ pc'[s] = "close"
       /\ (ev'.s = s /\ ~EntersPlayJoke(s) /\ pc'[s] # "free")
            => History(s)'.picks = History(s).picks /\ told'[s] = told[s]
       /\ (/\ History(s)'.wrong = History(s).wrong + 1
           /\ History(s)'.wrong = Len(jokes))
            => pc'[s] = "close"]_vars

\* C24, the bounds: in a session the number of selections is the size of
\* told; it, the number of recursive play_joke calls nested in the call of
\* handle_client and the number of wrong setup replies are at most the
\* catalog size; and no punchline sent is that of a joke whose setup prompt
\* got a wrong reply
C24_BoundedByCatalog ==
  \A s \in Sessions :
    /\ History(s).picks = Cardinality(told[s])
    /\ Cardinality(told[s]) <= Len(jokes)
    /\ History(s).depth <= Len(jokes)
    /\ History(s).depth <= History(s).picks
    /\ History(s).wrong <= Len(jokes)
    /\ History(s).wrong = Cardinality(History(s).abandoned)
    /\ History(s).abandoned \subseteq told[s]
    /\ History(s).abandoned \cap Punched(s) = {}

PunchlinesIn(out) == {k \in 1..Len(out) : out[k].tag = "punchline"}

\* C25, the step that sends a punchline: it sends one, that of the joke the
\* session selected last; the line the step read was read at the setup
\* prompt and is "<that joke's setup> who?" but for case and surrounding
\* blanks, and the line the session read before it was read at the knock
\* prompt and is "Who's there?" in the same sense
C25_PunchlineStep ==
  [][\A s \in Sessions :
       (ev'.s = s /\ PunchlinesIn(ev'.sent) # {})
         => /\ Cardinality(PunchlinesIn(ev'.sent)) = 1
            /\ History(s).lastPick \in 1..Len(jokes)
            /\ ev'.picked = 0
            /\ \A k \in PunchlinesIn(ev'.sent) :
                 ev'.sent[k].arg = jokes[History(s).lastPick].punchline
            /\ ev'.at = "recvSetup" /\ ~ev'.eof
            /\ SameText(ev'.reply, WholeSetupWho(jokes[History(s).lastPick]))
            /\ History(s).lastAt = "recvKnock"
            /\ SameText(History(s).last, sWhosThere)
            /\ History(s)'.punched =
                 Append(History(s).punched,
                        jokes[History(s).lastPick].punchline)]_vars

\* C25, the consequence: no punchline is in the list of those sent twice,
\* each is the punchline of a joke of the catalog, and the jokes whose
\* punchline was sent are in told
C25_PunchedOnceAndTold ==
  \A s \in Sessions :
    /\ \A k, m \in 1..Len(History(s).punched) :
         History(s).punched[k] = History(s).punched[m] => k = m
    /\ Cardinality(Punched(s)) = Len(History(s).punched)
    /\ Punched(s) \subseteq told[s]

\* C25: both parts
C25_PunchlineOnlyAfterBothReplies ==
  []C25_PunchedOnceAndTold /\ C25_PunchlineStep

\* the second punchline of a session was sent, after the client's
\* "Who's there?" and "<setup> who?" for the second joke selected
C25_Witness ==
  /\ ev.s = "A" /\ ev.at = "recvSetup"
  /\ PunchlinesIn(ev.sent) # {}
  /\ Len(History("A").punched) = 2
  /\ Punched("A") = told["A"]
  /\ History("A").lastAt = "recvSetup"

====
